---- MODULE Spec2Model ----
(***************************************************************************)
(* Model of the point-region quadtree of src/src/tree.rs.                  *)
(*                                                                         *)
(* Coordinates are floating-point numbers in the source.  They are         *)
(* modelled as integers counting multiples of the smallest positive        *)
(* float u: on such values addition and subtraction are exact and the      *)
(* only rounding is that of `x / 2.0` (round to nearest, ties to even).    *)
(* The root of half-extent (8u, 4u) is split exactly down to the depth the *)
(* bounds reach; the roots of half-extent 1u and 2u reach the rounding of  *)
(* the division.                                                           *)
(***************************************************************************)
EXTENDS Integers, Sequences, FiniteSets, TLC

\* ------------------------------------------------------------------ bounds
MaxEntries == 9

\* entries stored in the runs on the root of half-extent 2u alone
MaxDeep == 13

\* --------------------------------------------------------------- constants
NODE_CAPACITY == 4

None == <<>>

OK == "Ok"
ErrBounds == "Entry not within bounds"
ErrInternal == "This should not happen"

\* ------------------------------------------------- geometry (collaborator)
Vector2(x, y) == <<x, y>>

Rectangle(center, half_dim) == [center |-> center, half_dim |-> half_dim]

\* The caller's objects: an entry is a reference to one of them.
Entries == {"a", "b", "c"}

position(e) ==
    CASE e = "a" -> Vector2(0, 0)
      [] e = "b" -> Vector2(1, 0)
      [] e = "c" -> Vector2(5, 5)

\* closed bounds on all four sides
contains(rect, e) ==
    LET p == position(e) IN
    /\ rect.center[1] - rect.half_dim[1] <= p[1]
    /\ p[1] <= rect.center[1] + rect.half_dim[1]
    /\ rect.center[2] - rect.half_dim[2] <= p[2]
    /\ p[2] <= rect.center[2] + rect.half_dim[2]

\* contains for a bare position
containsPoint(rect, p) ==
    /\ rect.center[1] - rect.half_dim[1] <= p[1]
    /\ p[1] <= rect.center[1] + rect.half_dim[1]
    /\ rect.center[2] - rect.half_dim[2] <= p[2]
    /\ p[2] <= rect.center[2] + rect.half_dim[2]

\* overlap, touching edges included
intersects(ra, rb) ==
    /\ ra.center[1] - ra.half_dim[1] <= rb.center[1] + rb.half_dim[1]
    /\ rb.center[1] - rb.half_dim[1] <= ra.center[1] + ra.half_dim[1]
    /\ ra.center[2] - ra.half_dim[2] <= rb.center[2] + rb.half_dim[2]
    /\ rb.center[2] - rb.half_dim[2] <= ra.center[2] + ra.half_dim[2]

\* h / 2.0 on a non-negative multiple of u: round to nearest, ties to even
Halve(h) ==
    IF h % 2 = 0 THEN h \div 2
    ELSE LET lo == (h - 1) \div 2 IN IF lo % 2 = 0 THEN lo ELSE lo + 1

\* ------------------------------------------------------------- the inputs
Roots ==
    { Rectangle(Vector2(0, 0), Vector2(1, 1)),
      Rectangle(Vector2(0, 0), Vector2(2, 2)),
      Rectangle(Vector2(0, 0), Vector2(8, 4)) }

Ranges ==
    { Rectangle(Vector2(0, 0), Vector2(8, 8)),
      Rectangle(Vector2(1, 0), Vector2(0, 0)),
      Rectangle(Vector2(-1, -1), Vector2(1, 1)),
      Rectangle(Vector2(5, 5), Vector2(1, 1)),
      Rectangle(Vector2(9, 9), Vector2(1, 1)) }

\* ---------------------------------------------------------------- Quadtree
new(boundary) == [boundary |-> boundary, entries |-> <<>>, quadrants |-> None]

\* subdivide that gives each quadrant the node's own half_dim
subdivideNoHalve(self) ==
    LET px == self.boundary.center[1]
        py == self.boundary.center[2]
        hx == self.boundary.half_dim[1]
        hy == self.boundary.half_dim[2]
        half_dim == Vector2(hx, hy)
        north_west == new(Rectangle(Vector2(px - Halve(hx), py - Halve(hy)), half_dim))
        north_east == new(Rectangle(Vector2(px + Halve(hx), py - Halve(hy)), half_dim))
        south_west == new(Rectangle(Vector2(px - Halve(hx), py + Halve(hy)), half_dim))
        south_east == new(Rectangle(Vector2(px + Halve(hx), py + Halve(hy)), half_dim))
    IN [self EXCEPT !.quadrants = <<north_west, north_east, south_west, south_east>>]

\* subdivide that installs the quadrants in the order NW, SW, NE, SE
subdivideSwapped(self) ==
    LET px == self.boundary.center[1]
        py == self.boundary.center[2]
        hx == self.boundary.half_dim[1]
        hy == self.boundary.half_dim[2]
        half_dim == Vector2(Halve(hx), Halve(hy))
        north_west == new(Rectangle(Vector2(px - Halve(hx), py - Halve(hy)), half_dim))
        north_east == new(Rectangle(Vector2(px + Halve(hx), py - Halve(hy)), half_dim))
        south_west == new(Rectangle(Vector2(px - Halve(hx), py + Halve(hy)), half_dim))
        south_east == new(Rectangle(Vector2(px + Halve(hx), py + Halve(hy)), half_dim))
    IN [self EXCEPT !.quadrants = <<north_west, south_west, north_east, south_east>>]

subdivide(self) ==
    LET px == self.boundary.center[1]
        py == self.boundary.center[2]
        hx == self.boundary.half_dim[1]
        hy == self.boundary.half_dim[2]
        half_dim == Vector2(Halve(hx), Halve(hy))
        north_west == new(Rectangle(Vector2(px - Halve(hx), py - Halve(hy)), half_dim))
        north_east == new(Rectangle(Vector2(px + Halve(hx), py - Halve(hy)), half_dim))
        south_west == new(Rectangle(Vector2(px - Halve(hx), py + Halve(hy)), half_dim))
        south_east == new(Rectangle(Vector2(px + Halve(hx), py + Halve(hy)), half_dim))
    IN [self EXCEPT !.quadrants = <<north_west, north_east, south_west, south_east>>]

RECURSIVE insert(_, _)
RECURSIVE insertLoop(_, _, _, _, _)
RECURSIVE insertLoopNoReturn(_, _, _, _, _)

\* insertLoop without the return on the first quadrant that accepts
insertLoopNoReturn(self, entry, i, subs, dropped) ==
    IF i > 4
    THEN [res |-> ErrInternal, node |-> self, subs |-> subs, dropped |-> dropped]
    ELSE LET r == insert(self.quadrants[i], entry)
             next == [self EXCEPT !.quadrants[i] = r.node]
             rest == insertLoopNoReturn(next, entry, i + 1, subs + r.subs,
                                        dropped + r.dropped)
         IN IF r.res = OK THEN [rest EXCEPT !.res = OK] ELSE rest

\* The loop of insert over the quadrants, from quadrant i on.  subs counts the
\* subdivide() calls made so far in this call of insert and below it, dropped
\* the errors "This should not happen" of a quadrant that the loop discarded.
insertLoop(self, entry, i, subs, dropped) ==
    IF i > 4
    THEN [res |-> ErrInternal, node |-> self, subs |-> subs, dropped |-> dropped]
    ELSE LET r == insert(self.quadrants[i], entry)
             next == [self EXCEPT !.quadrants[i] = r.node]
         IN IF r.res = OK
            THEN [res |-> OK, node |-> next, subs |-> subs + r.subs,
                  dropped |-> dropped + r.dropped]
            ELSE insertLoop(next, entry, i + 1, subs + r.subs,
                            dropped + r.dropped
                              + (IF r.res = ErrInternal THEN 1 ELSE 0))

\* insert with the capacity test ahead of the bounds test
insertPushFirst(self, entry) ==
    IF Len(self.entries) < NODE_CAPACITY /\ self.quadrants = None
    THEN [res |-> OK, node |-> [self EXCEPT !.entries = Append(@, entry)],
          subs |-> 0, dropped |-> 0]
    ELSE IF ~contains(self.boundary, entry)
    THEN [res |-> ErrBounds, node |-> self, subs |-> 0, dropped |-> 0]
    ELSE IF self.quadrants = None
    THEN insertLoop(subdivide(self), entry, 1, 1, 0)
    ELSE insertLoop(self, entry, 1, 0, 0)

\* insert with <= in the capacity test
insertOverCapacity(self, entry) ==
    IF ~contains(self.boundary, entry)
    THEN [res |-> ErrBounds, node |-> self, subs |-> 0, dropped |-> 0]
    ELSE IF Len(self.entries) <= NODE_CAPACITY /\ self.quadrants = None
    THEN [res |-> OK, node |-> [self EXCEPT !.entries = Append(@, entry)],
          subs |-> 0, dropped |-> 0]
    ELSE IF self.quadrants = None
    THEN insertLoop(subdivide(self), entry, 1, 1, 0)
    ELSE insertLoop(self, entry, 1, 0, 0)

\* insert without the bounds test
insertUnchecked(self, entry) ==
    IF Len(self.entries) < NODE_CAPACITY /\ self.quadrants = None
    THEN [res |-> OK, node |-> [self EXCEPT !.entries = Append(@, entry)],
          subs |-> 0, dropped |-> 0]
    ELSE IF self.quadrants = None
    THEN insertLoop(subdivide(self), entry, 1, 1, 0)
    ELSE insertLoop(self, entry, 1, 0, 0)

\* insert that subdivides whenever the node is at capacity
insertResubdivide(self, entry) ==
    IF ~contains(self.boundary, entry)
    THEN [res |-> ErrBounds, node |-> self, subs |-> 0, dropped |-> 0]
    ELSE IF Len(self.entries) < NODE_CAPACITY /\ self.quadrants = None
    THEN [res |-> OK, node |-> [self EXCEPT !.entries = Append(@, entry)],
          subs |-> 0, dropped |-> 0]
    ELSE insertLoop(subdivide(self), entry, 1, 1, 0)

\* insert that splits a leaf one entry before NODE_CAPACITY
insertEarlySplit(self, entry) ==
    IF ~contains(self.boundary, entry)
    THEN [res |-> ErrBounds, node |-> self, subs |-> 0, dropped |-> 0]
    ELSE IF Len(self.entries) < NODE_CAPACITY - 1 /\ self.quadrants = None
    THEN [res |-> OK, node |-> [self EXCEPT !.entries = Append(@, entry)],
          subs |-> 0, dropped |-> 0]
    ELSE IF self.quadrants = None
    THEN insertLoop(subdivide(self), entry, 1, 1, 0)
    ELSE insertLoop(self, entry, 1, 0, 0)

insert(self, entry) ==
    IF ~contains(self.boundary, entry)
    THEN [res |-> ErrBounds, node |-> self, subs |-> 0, dropped |-> 0]
    ELSE IF Len(self.entries) < NODE_CAPACITY /\ self.quadrants = None
    THEN [res |-> OK, node |-> [self EXCEPT !.entries = Append(@, entry)],
          subs |-> 0, dropped |-> 0]
    ELSE IF self.quadrants = None
    THEN insertLoop(subdivide(self), entry, 1, 1, 0)
    ELSE insertLoop(self, entry, 1, 0, 0)

RECURSIVE query(_, _)
RECURSIVE queryLoop(_, _, _, _)

RECURSIVE queryLoopReversed(_, _, _, _)
RECURSIVE queryLoopTwice(_, _, _, _)

\* queryLoop that puts a quadrant's result ahead of what it has so far
queryLoopReversed(self, range, i, acc) ==
    IF i > 4 THEN acc
    ELSE LET r == query(self.quadrants[i], range)
         IN queryLoopReversed(self, range, i + 1,
                              [result |-> r.result \o acc.result,
                               scanned |-> acc.scanned + r.scanned])

\* queryLoop that queries a quadrant once to see whether it returns anything
\* and once more to append what it returns
queryLoopTwice(self, range, i, acc) ==
    IF i > 4 THEN acc
    ELSE LET r == query(self.quadrants[i], range)
         IN queryLoopTwice(self, range, i + 1,
                           [result |-> acc.result \o r.result,
                            scanned |-> acc.scanned + r.scanned
                               + (IF r.result # <<>> THEN r.scanned ELSE 0)])

\* result: the entries returned; scanned: the nodes whose entries were read
queryLoop(self, range, i, acc) ==
    IF i > 4 THEN acc
    ELSE LET r == query(self.quadrants[i], range)
         IN queryLoop(self, range, i + 1,
                      [result |-> acc.result \o r.result,
                       scanned |-> acc.scanned + r.scanned])

\* query that returns every entry of a node it reads
queryNoFilter(self, range) ==
    IF ~intersects(self.boundary, range)
    THEN [result |-> <<>>, scanned |-> 0]
    ELSE IF self.quadrants = None
         THEN [result |-> self.entries, scanned |-> 1]
         ELSE queryLoop(self, range, 1, [result |-> self.entries, scanned |-> 1])

\* query without the test of the node's boundary against the range
queryNoPrune(self, range) ==
    LET local == SelectSeq(self.entries, LAMBDA e : contains(range, e))
    IN IF self.quadrants = None
       THEN [result |-> local, scanned |-> 1]
       ELSE queryLoop(self, range, 1, [result |-> local, scanned |-> 1])

query(self, range) ==
    IF ~intersects(self.boundary, range)
    THEN [result |-> <<>>, scanned |-> 0]
    ELSE LET local == SelectSeq(self.entries, LAMBDA e : contains(range, e))
         IN IF self.quadrants = None
            THEN [result |-> local, scanned |-> 1]
            ELSE queryLoop(self, range, 1, [result |-> local, scanned |-> 1])

\* ------------------------------------------------------------ measurements
RECURSIVE Size(_)
Size(n) ==
    Len(n.entries)
      + (IF n.quadrants = None THEN 0
         ELSE Size(n.quadrants[1]) + Size(n.quadrants[2])
                + Size(n.quadrants[3]) + Size(n.quadrants[4]))

\* ------------------------------------------------------------------- state
VARIABLES tree, accepted, last

vars == <<tree, accepted, last>>

\* tree      the root node
\* accepted  how many times insert returned Ok for each of the caller's objects
\* last      the last call and what it returned

Init ==
    /\ \E b \in Roots : tree = new(b)
    /\ accepted = [e \in Entries |-> 0]
    /\ last = [op |-> "new"]

Insert(entry) ==
    /\ Size(tree) < MaxEntries
    /\ LET r == insert(tree, entry) IN
       /\ tree' = r.node
       /\ accepted' = IF r.res = OK THEN [accepted EXCEPT ![entry] = @ + 1]
                      ELSE accepted
       /\ last' = [op |-> "insert", entry |-> entry, res |-> r.res,
                   subs |-> r.subs, dropped |-> r.dropped]

\* Query that moves the root's entries into the result
QueryTaking(range) ==
    /\ LET r == query(tree, range) IN
       last' = [op |-> "query", range |-> range, result |-> r.result,
                scanned |-> r.scanned]
    /\ tree' = [tree EXCEPT !.entries =
                    SelectSeq(@, LAMBDA e : ~contains(range, e))]
    /\ UNCHANGED accepted

Query(range) ==
    /\ LET r == query(tree, range) IN
       last' = [op |-> "query", range |-> range, result |-> r.result,
                scanned |-> r.scanned]
    /\ UNCHANGED <<tree, accepted>>

Next ==
    \/ \E entry \in Entries : Insert(entry)
    \/ \E range \in Ranges : Query(range)

Spec == Init /\ [][Next]_vars

\* The inserts on the root of half-extent (2u, 2u), up to the number of
\* entries that fills the root and two of its quadrants.
InitDeep ==
    /\ tree = new(Rectangle(Vector2(0, 0), Vector2(2, 2)))
    /\ accepted = [e \in Entries |-> 0]
    /\ last = [op |-> "new"]

InsertDeep(entry) ==
    /\ Size(tree) < MaxDeep
    /\ LET r == insert(tree, entry) IN
       /\ tree' = r.node
       /\ accepted' = IF r.res = OK THEN [accepted EXCEPT ![entry] = @ + 1]
                      ELSE accepted
       /\ last' = [op |-> "insert", entry |-> entry, res |-> r.res,
                   subs |-> r.subs, dropped |-> r.dropped]

NextDeep ==
    \/ \E entry \in Entries : InsertDeep(entry)
    \/ \E range \in Ranges : Query(range)

SpecDeep == InitDeep /\ [][NextDeep]_vars

\* ----------------------------------------------------------------- helpers
RECURSIVE Nodes(_)
\* every node of the tree rooted at n
Nodes(n) ==
    {n} \cup (IF n.quadrants = None THEN {}
              ELSE UNION {Nodes(n.quadrants[i]) : i \in 1..4})

Count(e, s) == Cardinality({i \in 1..Len(s) : s[i] = e})

TotalAccepted ==
    accepted["a"] + accepted["b"] + accepted["c"]

IsInternal(n) == n.quadrants # None

\* ------------------------------------------------------------------ claims

\* C1: a top-level insert(e) succeeds if and only if the root boundary
\* contains e, however full or deep the tree already is.
C1_InsertSucceedsIffContained ==
    last.op = "insert" =>
        (last.res = OK <=> contains(tree.boundary, last.entry))

\* C2 (as stated): a query whose range contains a successfully inserted entry
\* returns that entry exactly once.
C2_ReturnedExactlyOnce ==
    last.op = "query" =>
        \A e \in Entries :
            (accepted[e] > 0 /\ contains(last.range, e))
                => Count(e, last.result) = 1

\* C2 (amended): a query whose range contains a successfully inserted entry
\* returns that entry exactly as many times as its insert succeeded, so
\* exactly once when it was inserted once.
C2_ReturnedOncePerInsert ==
    last.op = "query" =>
        \A e \in Entries :
            (accepted[e] > 0 /\ contains(last.range, e))
                => Count(e, last.result) = accepted[e]

\* a query over a split tree that returns an entry inserted once and left on
\* the split root, and an entry held by a quadrant
C2_Witness ==
    /\ last.op = "query"
    /\ IsInternal(tree)
    /\ \E e \in Entries :
          /\ accepted[e] = 1
          /\ Count(e, tree.entries) = 1
          /\ Count(e, last.result) = 1
    /\ \E i \in 1..4, e \in Entries :
          /\ Count(e, tree.quadrants[i].entries) > 0
          /\ Count(e, last.result) > 0

\* C3: query returns only entries that were successfully inserted and that
\* the range contains.
C3_OnlyInsertedAndInRange ==
    last.op = "query" =>
        \A i \in 1..Len(last.result) :
            /\ accepted[last.result[i]] > 0
            /\ contains(last.range, last.result[i])

\* a query that leaves out stored entries, over a split tree
C3_Witness ==
    /\ last.op = "query"
    /\ IsInternal(tree)
    /\ Len(last.result) > 0
    /\ Len(last.result) < Size(tree)

\* C4: an insert that fails because the entry is outside the root boundary
\* changes no node, so every query returns what it returned before; on an
\* empty tree the query over the root area then returns nothing.
C4_FailedInsertChangesNothing ==
    [][ (last'.op = "insert" /\ ~contains(tree.boundary, last'.entry)) =>
            /\ last'.res = ErrBounds
            /\ tree' = tree
            /\ \A r \in Ranges : query(tree', r) = query(tree, r)
            /\ (Size(tree) = 0 => query(tree', tree.boundary).result = <<>>)
      ]_vars

\* an insert outside the root boundary has failed on a split tree
C4_Witness ==
    /\ last.op = "insert"
    /\ last.res = ErrBounds
    /\ ~contains(tree.boundary, last.entry)
    /\ IsInternal(tree)

\* C5: the first NODE_CAPACITY successful inserts leave the root a leaf, the
\* next successful insert performs exactly one subdivide(), and the query over
\* the root area then returns the NODE_CAPACITY + 1 entries, each once.
C5_OneSubdivideAtCapacity ==
    (last.op = "insert" /\ last.res = OK) =>
        /\ TotalAccepted <= NODE_CAPACITY => ~IsInternal(tree)
        /\ TotalAccepted = NODE_CAPACITY + 1 =>
              /\ last.subs = 1
              /\ Len(query(tree, tree.boundary).result) = NODE_CAPACITY + 1
              /\ \A e \in Entries :
                    Count(e, query(tree, tree.boundary).result) = accepted[e]

C7_DisjointRangePruned ==
    /\ \A n \in Nodes(tree) : \A r \in Ranges :
          ~intersects(n.boundary, r)
              => query(n, r) = [result |-> <<>>, scanned |-> 0]
    /\ (last.op = "query" /\ ~intersects(tree.boundary, last.range))
          => (last.result = <<>> /\ last.scanned = 0)

\* a query has read the root and skipped a quadrant that holds entries
C7_Witness ==
    /\ last.op = "query"
    /\ intersects(tree.boundary, last.range)
    /\ \E n \in Nodes(tree) :
          /\ Size(n) > 0
          /\ ~intersects(n.boundary, last.range)

\* C8: the error of a node none of whose quadrants accepts an entry it
\* contains differs from the out-of-bounds error and is never dropped by an
\* ancestor that goes on to the next quadrant.
C8_InternalErrorNotSwallowed ==
    /\ ErrInternal # ErrBounds
    /\ last.op = "insert" =>
          /\ last.dropped = 0
          /\ (contains(tree.boundary, last.entry) /\ last.res # OK)
                => last.res = ErrInternal

\* C9: every node is a leaf with at most NODE_CAPACITY entries or has exactly
\* four quadrants.
C9_LeafOrFourQuadrants ==
    \A n \in Nodes(tree) :
        \/ n.quadrants = None /\ Len(n.entries) <= NODE_CAPACITY
        \/ n.quadrants # None /\ Len(n.quadrants) = 4

\* a split quadrant below a split root
C9_Witness ==
    /\ IsInternal(tree)
    /\ \E i \in 1..4 :
          /\ IsInternal(tree.quadrants[i])
          /\ \E j \in 1..4 : Len(tree.quadrants[i].quadrants[j].entries) > 0

\* C10: every entry stored at a node is contained in that node's boundary.
C10_EntriesWithinBoundary ==
    \A n \in Nodes(tree) : \A i \in 1..Len(n.entries) :
        contains(n.boundary, n.entries[i])

\* entries stored two levels below the root
C10_Witness ==
    /\ IsInternal(tree)
    /\ \E i \in 1..4 :
          /\ IsInternal(tree.quadrants[i])
          /\ Len(tree.quadrants[i].entries) = NODE_CAPACITY
          /\ \E j \in 1..4 :
                /\ Len(tree.quadrants[i].quadrants[j].entries) > 0
                /\ tree.quadrants[i].quadrants[j].boundary # tree.quadrants[i].boundary

\* the positions the tiling is examined at
Points == {Vector2(x, y) : x \in -3..3, y \in -3..3}

\* how many quadrants of the internal node n contain the position p
Holders(n, p) ==
    Cardinality({i \in 1..4 : containsPoint(n.quadrants[i].boundary, p)})

QuadrantBoundary(b, i) ==
    LET sx == IF i \in {1, 3} THEN -1 ELSE 1
        sy == IF i \in {1, 2} THEN -1 ELSE 1
    IN Rectangle(Vector2(b.center[1] + sx * Halve(b.half_dim[1]),
                         b.center[2] + sy * Halve(b.half_dim[2])),
                 Vector2(Halve(b.half_dim[1]), Halve(b.half_dim[2])))

\* C12: subdivide() installs four empty leaves in the order NW, NE, SW, SE
\* with centers (px -+ hx/2, py -+ hy/2) and half-extent (hx/2, hy/2), and
\* leaves the node's own boundary and entries alone.
C12_SubdivideGeometry ==
    \A n \in Nodes(tree) :
        /\ IsInternal(n) =>
              \A i \in 1..4 :
                  n.quadrants[i].boundary = QuadrantBoundary(n.boundary, i)
        /\ ~IsInternal(n) =>
              LET s == subdivide(n) IN
              /\ s.boundary = n.boundary
              /\ s.entries = n.entries
              /\ Len(s.quadrants) = 4
              /\ \A i \in 1..4 :
                    s.quadrants[i] = new(QuadrantBoundary(n.boundary, i))

\* a quadrant with unequal half-extents has been subdivided
C12_Witness ==
    \E n \in Nodes(tree) :
        /\ IsInternal(n)
        /\ n.boundary # tree.boundary
        /\ n.boundary.half_dim[1] # n.boundary.half_dim[2]
        /\ Len(n.entries) = NODE_CAPACITY

IsPrefix(s, t) == Len(s) <= Len(t) /\ SubSeq(t, 1, Len(s)) = s

RECURSIVE Kept(_, _)
\* every node of old is a node of now at the same place, with the same
\* boundary and its entries kept in place, and still internal if it was
Kept(old, now) ==
    /\ now.boundary = old.boundary
    /\ IsPrefix(old.entries, now.entries)
    /\ IsInternal(old) =>
          /\ IsInternal(now)
          /\ \A i \in 1..4 : Kept(old.quadrants[i], now.quadrants[i])

RECURSIVE InternalCount(_)
InternalCount(n) ==
    IF n.quadrants = None THEN 0
    ELSE 1 + InternalCount(n.quadrants[1]) + InternalCount(n.quadrants[2])
           + InternalCount(n.quadrants[3]) + InternalCount(n.quadrants[4])

\* C13: a node that has quadrants keeps those four quadrants, with what they
\* hold, in every later state, and each subdivide() of an insert turns one
\* more leaf into an internal node, so no node is subdivided twice.
C13_QuadrantsKept ==
    [][ /\ Kept(tree, tree')
        /\ last'.op = "insert" =>
              InternalCount(tree') = InternalCount(tree) + last'.subs
      ]_vars

\* an insert has gone through an internal root into a quadrant that already
\* held entries
C13_Witness ==
    /\ last.op = "insert"
    /\ last.res = OK
    /\ last.subs = 0
    /\ IsInternal(tree)
    /\ \E i \in 1..4 : Len(tree.quadrants[i].entries) >= 2

RECURSIVE Changed(_, _)
\* the number of nodes of now whose entries differ from those of the node of
\* old at the same place (an empty leaf where old has no node there)
Changed(old, now) ==
    (IF now.entries # old.entries THEN 1 ELSE 0)
      + (IF ~IsInternal(now) THEN 0
         ELSE LET was(i) == IF IsInternal(old) THEN old.quadrants[i]
                            ELSE new(now.quadrants[i].boundary)
              IN Changed(was(1), now.quadrants[1])
                   + Changed(was(2), now.quadrants[2])
                   + Changed(was(3), now.quadrants[3])
                   + Changed(was(4), now.quadrants[4]))

\* C14: a successful insert appends its entry to the entries of exactly one
\* node, performs at most one subdivide() in the whole tree and leaves every
\* entry placed earlier in its node at its index.
C14_OneAppendOneSubdivide ==
    [][ (last'.op = "insert" /\ last'.res = OK) =>
            /\ last'.subs <= 1
            /\ Changed(tree, tree') = 1
            /\ Size(tree') = Size(tree) + 1
            /\ Kept(tree, tree')
      ]_vars

\* the first quadrant of n, in the order NW, NE, SW, SE, that contains e
\* (0 when none does)
FirstHolder(n, e) ==
    IF \E i \in 1..4 : contains(n.quadrants[i].boundary, e)
    THEN CHOOSE i \in 1..4 :
            /\ contains(n.quadrants[i].boundary, e)
            /\ \A j \in 1..(i - 1) : ~contains(n.quadrants[j].boundary, e)
    ELSE 0

RECURSIVE FirstAccepts(_, _, _)
\* wherever the entry e went from a node into its quadrants, it went into the
\* first quadrant that contains it and into no other
FirstAccepts(old, now, e) ==
    IF ~IsInternal(now) \/ now.entries # old.entries \/ Size(now) = Size(old)
    THEN TRUE
    ELSE LET was(i) == IF IsInternal(old) THEN old.quadrants[i]
                       ELSE new(now.quadrants[i].boundary)
             first == FirstHolder(now, e)
         IN /\ first # 0
            /\ \A i \in 1..4 :
                  Size(now.quadrants[i]) =
                      Size(was(i)) + (IF i = first THEN 1 ELSE 0)
            /\ \A i \in 1..4 :
                  i = first => FirstAccepts(was(i), now.quadrants[i], e)

\* C15: at an internal node the entry is accepted by the first quadrant, in
\* the order NW, NE, SW, SE, whose boundary contains it, and no later quadrant
\* receives it.
C15_FirstContainingQuadrantAccepts ==
    [][ (last'.op = "insert" /\ last'.res = OK) =>
            FirstAccepts(tree, tree', last'.entry)
      ]_vars

RECURSIVE InOrder(_, _)
\* a node's own entries that the range contains, as they stand in entries,
\* then what its quadrants give in the order NW, NE, SW, SE
InOrder(n, range) ==
    IF ~intersects(n.boundary, range) THEN <<>>
    ELSE SelectSeq(n.entries, LAMBDA e : contains(range, e))
           \o (IF ~IsInternal(n) THEN <<>>
               ELSE InOrder(n.quadrants[1], range)
                      \o InOrder(n.quadrants[2], range)
                      \o InOrder(n.quadrants[3], range)
                      \o InOrder(n.quadrants[4], range))

\* C16: query returns the node's own matching entries in insertion order,
\* followed by the results of its quadrants in the order NW, NE, SW, SE.
C16_QueryOrder ==
    /\ last.op = "query" => last.result = InOrder(tree, last.range)
    /\ \A n \in Nodes(tree) : \A r \in Ranges :
          query(n, r).result = InOrder(n, r)

\* a query has returned entries of the root and of two of its quadrants
C16_Witness ==
    /\ last.op = "query"
    /\ IsInternal(tree)
    /\ Len(last.result) = Size(tree)
    /\ Count("a", tree.entries) > 0
    /\ Count("b", tree.entries) > 0
    /\ Cardinality({i \in 1..4 : Size(tree.quadrants[i]) > 0}) >= 2

RECURSIVE Depth(_)
\* the depth of the deepest node, the root being at depth 0
Depth(n) ==
    IF n.quadrants = None THEN 0
    ELSE LET d(i) == Depth(n.quadrants[i])
             m12 == IF d(1) >= d(2) THEN d(1) ELSE d(2)
             m34 == IF d(3) >= d(4) THEN d(3) ELSE d(4)
         IN 1 + (IF m12 >= m34 THEN m12 ELSE m34)

RECURSIVE NodeCount(_)
NodeCount(n) ==
    IF n.quadrants = None THEN 1
    ELSE 1 + NodeCount(n.quadrants[1]) + NodeCount(n.quadrants[2])
           + NodeCount(n.quadrants[3]) + NodeCount(n.quadrants[4])

\* C17: an insert deepens the tree by at most one level, and a query reads
\* no more nodes than the tree has.
C17_BoundedRecursion ==
    [][ /\ last'.op = "insert" => Depth(tree') <= Depth(tree) + 1
        /\ last'.op = "query" => last'.scanned <= NodeCount(tree')
        /\ \A r \in Ranges : query(tree', r).scanned <= NodeCount(tree')
      ]_vars

\* a query has read every node of a tree of depth 2
C17_Witness ==
    /\ last.op = "query"
    /\ Depth(tree) = 2
    /\ last.scanned = NodeCount(tree)

\* C18: every internal node holds exactly NODE_CAPACITY direct entries.
C18_InternalNodesAreFull ==
    \A n \in Nodes(tree) :
        IsInternal(n) => Len(n.entries) = NODE_CAPACITY

\* an insert has gone below an internal quadrant of an internal root
C18_Witness ==
    /\ last.op = "insert"
    /\ last.res = OK
    /\ Depth(tree) = 2
    /\ Size(tree) > 2 * NODE_CAPACITY

\* C19: after n >= 1 successful inserts the deepest node is at depth at most
\* floor((n - 1) / NODE_CAPACITY).
C19_DepthBoundedByInserts ==
    TotalAccepted >= 1 =>
        Depth(tree) <= (TotalAccepted - 1) \div NODE_CAPACITY

\* C20: every internal node has a quadrant whose subtree holds an entry.
C20_SomeQuadrantHoldsAnEntry ==
    \A n \in Nodes(tree) :
        IsInternal(n) => \E i \in 1..4 : Size(n.quadrants[i]) > 0

====
